---- MODULE Spec2Model ----
(***************************************************************************)
(* Model of the dBase (.dbf) reader/writer prototype in src/index.js.      *)
(*                                                                         *)
(* The script reads ./world.dbf, decodes it (header, field descriptors,    *)
(* records), encodes the decoded table back into a buffer, writes it to    *)
(* ./new.dbf, reads that file again and decodes it (readBuffer).           *)
(*                                                                         *)
(* Buffers are sequences of bytes; offset o of the source is index o + 1.  *)
(* Strings are sequences of character codes.  Reading past the end of a    *)
(* buffer yields `undefined`, as an index on a Uint8Array does.            *)
(***************************************************************************)
EXTENDS Integers, Sequences, FiniteSets, TLC

VARIABLES
    pc,             \* position of the script: which callback runs next
    stage,          \* 1: decoding world.dbf, 2: decoding new.dbf
    runtime,        \* "lenient": out-of-range writes with noAssert are ignored
                    \* "strict" : the runtime throws on them (noAssert removed)
    junk,           \* content of the memory the runtime hands out uninitialised
    world,          \* the bytes of ./world.dbf
    buff,           \* the buffer being decoded
    fieldOffset,    \* decodeFields: the loop's offset
    header,         \* decodeHeader's result for buff
    fields,         \* decodeFields: the fields pushed so far
    records,        \* decodeRecords' result for buff
    table,          \* const { header, fields, records } = decode(world)
    now,            \* the wall clock read by encodeHeader (new Date())
    headerBuffer,   \* encodeHeader's result
    fieldBuffers,   \* fields.map(encodeField)
    recordBuffers,  \* the record buffers pushed by the encode-back callback
    fileBuffer,     \* the bytes written to ./new.dbf
    error,          \* the exception that ended the callback, "" if none
    run,            \* how many times the script has been started
    prevFile        \* ./new.dbf as the previous run of the script left it

vars == <<pc, stage, runtime, junk, world, buff, fieldOffset, header, fields,
          records, table, now, headerBuffer, fieldBuffers, recordBuffers,
          fileBuffer, error, run, prevFile>>

----------------------------------------------------------------------------
(* Program constants *)

FIELD_OFFSET_SIZE == 32
FIELD_DELIMITER == 13
RECORD_DELETED == 42
RECORD_NOT_DELETED == 32
EOF_FLAG == 26
ZERO_FILL_CHAR == 0
VERSION_DBASE5 == 5
NAME_WIDTH == 11

(* Model bounds *)
MaxFields == 2
MaxRecords == 2
MaxOverrun == 2
MaxRuns == 2

undefined == 0 - 1

----------------------------------------------------------------------------
(* Sequence helpers *)

Repeat(b, n) == [i \in 1..n |-> b]

RECURSIVE Flatten(_)
Flatten(ss) == IF ss = <<>> THEN <<>> ELSE Head(ss) \o Flatten(Tail(ss))

RECURSIVE SumSeq(_)
SumSeq(s) == IF s = <<>> THEN 0 ELSE Head(s) + SumSeq(Tail(s))

Min(a, b) == IF a < b THEN a ELSE b
Max(a, b) == IF a > b THEN a ELSE b

----------------------------------------------------------------------------
(* Buffer primitives *)

\* buff[off]
At(b, off) == IF off >= 0 /\ off < Len(b) THEN b[off + 1] ELSE undefined

\* buff.slice(start, end) and the window of buff.toString('ascii', start, end):
\* both clamp to the buffer
Slice(b, start, end) ==
    LET s == Min(Max(start, 0), Len(b))
        e == Min(Max(end, s), Len(b))
    IN  SubSeq(b, s + 1, e)

\* buffer.writeUInt8(value, off) for off inside the buffer
WriteAt(b, off, byte) == [b EXCEPT ![off + 1] = byte]

\* buf.asciiWrite(str, off, n) / a copy of bytes into b at off, clamped to b
WriteBytes(b, off, bytes) ==
    LET n == Min(Len(bytes), Len(b) - off)
    IN  SubSeq(b, 1, off) \o SubSeq(bytes, 1, n) \o SubSeq(b, off + n + 1, Len(b))

ReadUInt16LE(b, off) == b[off + 1] + 256 * b[off + 2]
ReadUInt32LE(b, off) ==
    b[off + 1] + 256 * b[off + 2] + 65536 * b[off + 3] + 16777216 * b[off + 4]

UInt16LE(n) == << n % 256, (n \div 256) % 256 >>
UInt32LE(n) ==
    << n % 256, (n \div 256) % 256, (n \div 65536) % 256, (n \div 16777216) % 256 >>

----------------------------------------------------------------------------
(* Lookup tables *)

\* FIELD_TYPES[letter]
FIELD_TYPES(code) ==
    CASE code = 67 -> "Character"
      [] code = 76 -> "Boolean"
      [] code = 68 -> "Date"
      [] code = 78 -> "Numeric"
      [] OTHER     -> "undefined"

\* field.type.charAt(0), as a character code
TypeInitial(type) ==
    CASE type = "Character" -> 67
      [] type = "Boolean"   -> 66
      [] type = "Date"      -> 68
      [] type = "Numeric"   -> 78
      [] OTHER              -> undefined

\* FIELD_SIZES[key] for a one-letter key (a character code)
FIELD_SIZES_letter(code) ==
    CASE code = 67 -> 254
      [] code = 76 -> 1
      [] code = 68 -> 8
      [] code = 78 -> 18
      [] OTHER     -> undefined

\* FIELD_SIZES[key] for a typeof string
FIELD_SIZES_typeof(t) ==
    CASE t = "string"  -> 254
      [] t = "boolean" -> 1
      [] t = "number"  -> 18
      [] OTHER         -> undefined

----------------------------------------------------------------------------
(* JavaScript values held by a record: booleans, strings, numbers.         *)
(* A number is NaN or a signed integer kept as its decimal digits (most    *)
(* significant first, no leading zero), which is exact for the integers    *)
(* the model's files hold.                                                 *)

JsBoolean(b) == [type |-> "boolean", bool |-> b, nan |-> FALSE, neg |-> FALSE, seq |-> <<>>]
JsString(chars) == [type |-> "string", bool |-> FALSE, nan |-> FALSE, neg |-> FALSE, seq |-> chars]
JsNumber(neg, digits) == [type |-> "number", bool |-> FALSE, nan |-> FALSE, neg |-> neg, seq |-> digits]
JsNaN == [type |-> "number", bool |-> FALSE, nan |-> TRUE, neg |-> FALSE, seq |-> <<>>]

TypeOf(v) == v.type

Truthy(v) ==
    CASE v.type = "boolean" -> v.bool
      [] v.type = "string"  -> v.seq # <<>>
      [] OTHER              -> ~v.nan /\ v.seq # <<0>>

IsDigit(c) == c >= 48 /\ c <= 57
IsSpace(c) == c \in {9, 10, 11, 12, 13, 32}

\* str.replace(new RegExp(ZERO_FILL_CHAR, 'g'), '')
StripZeroFill(s) == SelectSeq(s, LAMBDA c : c # ZERO_FILL_CHAR)

\* the index of the first character of s that is not white space, Len(s) + 1
\* when there is none
FirstNonSpace(s) ==
    CHOOSE i \in 1..(Len(s) + 1) :
        /\ i = Len(s) + 1 \/ ~IsSpace(s[i])
        /\ \A j \in 1..(i - 1) : IsSpace(s[j])

\* the index of the last character of s that is not white space, 0 when
\* there is none
LastNonSpace(s) ==
    CHOOSE i \in 0..Len(s) :
        /\ i = 0 \/ ~IsSpace(s[i])
        /\ \A j \in (i + 1)..Len(s) : IsSpace(s[j])

\* str.trim()
Trim(s) == SubSeq(s, FirstNonSpace(s), LastNonSpace(s))

RECURSIVE DropLeadingZeros(_)
DropLeadingZeros(d) ==
    IF Len(d) > 1 /\ Head(d) = 0 THEN DropLeadingZeros(Tail(d)) ELSE d

\* the value of a run of decimal digit characters, for a short run
RECURSIVE DecimalValue(_)
DecimalValue(ds) ==
    IF ds = <<>> THEN 0 ELSE 10 * DecimalValue(SubSeq(ds, 1, Len(ds) - 1)) + (ds[Len(ds)] - 48)

AllDigits(s) == s # <<>> /\ \A i \in 1..Len(s) : IsDigit(s[i])

\* Number(str) for a trimmed string: "" is 0; an optionally signed run of
\* decimal digits, with or without an exponent e<digits>, is that integer;
\* any other text of the model's files is NaN (the files hold no '.', no
\* negative exponent, no hex prefix, no "Infinity", and no integer a double
\* cannot hold exactly)
ToNumber(s) ==
    LET signed == s # <<>> /\ Head(s) \in {43, 45}
        body   == IF signed THEN Tail(s) ELSE s
        es     == {i \in 1..Len(body) : body[i] \in {69, 101}}
        p      == IF es = {} THEN Len(body) + 1 ELSE CHOOSE i \in es : TRUE
        mant   == SubSeq(body, 1, p - 1)
        exp    == SubSeq(body, p + 1, Len(body))
        shift  == IF es = {} THEN 0 ELSE DecimalValue(exp)
        digits == DropLeadingZeros([i \in 1..Len(mant) |-> mant[i] - 48])
        scaled == IF digits = <<0>> THEN digits ELSE digits \o Repeat(0, shift)
    IN  IF s = <<>> THEN JsNumber(FALSE, <<0>>)
        ELSE IF Cardinality(es) <= 1 /\ AllDigits(mant) /\ (es = {} \/ AllDigits(exp))
             THEN JsNumber(signed /\ Head(s) = 45 /\ scaled # <<0>>, scaled)
             ELSE JsNaN

\* num.toString()
NumberToString(v) ==
    IF v.nan THEN <<78, 97, 78>>
    ELSE (IF v.neg THEN <<45>> ELSE <<>>) \o [i \in 1..Len(v.seq) |-> v.seq[i] + 48]

\* +ch for a one-character string ch, then the store into a Uint8Array:
\* a digit is its value, white space is 0, anything else is NaN, stored as 0
CharToUint8(c) == IF IsDigit(c) THEN c - 48 ELSE 0

----------------------------------------------------------------------------
(* Objects: a record is a JavaScript object, kept as its own properties in *)
(* insertion order (the order of Object.keys for non-index keys).          *)

KEY_isDel == <<95, 105, 115, 68, 101, 108>>

HasKey(obj, k) == \E i \in 1..Len(obj) : obj[i].key = k

\* obj[k] = v
ObjSet(obj, k, v) ==
    IF HasKey(obj, k)
    THEN [i \in 1..Len(obj) |-> IF obj[i].key = k THEN [key |-> k, val |-> v] ELSE obj[i]]
    ELSE Append(obj, [key |-> k, val |-> v])

\* obj[k] for an own property
ObjGet(obj, k) == obj[CHOOSE i \in 1..Len(obj) : obj[i].key = k].val

ObjectKeys(obj) == [i \in 1..Len(obj) |-> obj[i].key]

----------------------------------------------------------------------------
(* zeroFill *)

\* ZERO_FILL_CHAR.repeat(desiredLength - value.length) throws a RangeError
\* on a negative count
ZeroFillThrows(value, desiredLength) == desiredLength - Len(value) < 0

zeroFill(value, desiredLength, direction) ==
    LET zeroes == Repeat(ZERO_FILL_CHAR, desiredLength - Len(value))
    IN  CASE direction = "left"  -> zeroes \o value
          [] direction = "right" -> value \o zeroes
          [] OTHER               -> value

----------------------------------------------------------------------------
(* Decoding *)

\* buff.toString('ascii', ...): each byte with its high bit cleared
AsciiDecode(bytes) == [i \in 1..Len(bytes) |-> bytes[i] % 128]

\* lastUpdated is left out: it is a string built from the wall clock and
\* bytes 1-3, and neither the encoder nor readBuffer reads it
decodeHeader(b) ==
    [ bytesInHeader  |-> ReadUInt16LE(b, 8),
      bytesPerRecord |-> ReadUInt16LE(b, 10),
      totalRecords   |-> ReadUInt32LE(b, 4) ]

decodeField(b, off) ==
    LET fieldBuff == Slice(b, off, off + FIELD_OFFSET_SIZE)
    IN  [ name   |-> StripZeroFill(AsciiDecode(Slice(fieldBuff, 0, NAME_WIDTH))),
          type   |-> FIELD_TYPES(At(fieldBuff, 11)),
          length |-> At(fieldBuff, 16) ]

\* the test of decodeFields' while loop
FieldsLoopContinues(b, off) == At(b, off) # FIELD_DELIMITER

\* the text decodeRecords reads for one field
FieldText(b, recordOffset, field) ==
    Trim(StripZeroFill(AsciiDecode(Slice(b, recordOffset, recordOffset + field.length))))

\* Type(text), Type being Number for a Numeric field and String otherwise
FieldValue(field, text) ==
    IF field.type = "Numeric" THEN ToNumber(text) ELSE JsString(text)

\* the inner loop of decodeRecords from field j on
RECURSIVE DecodeRecordFields(_, _, _, _, _)
DecodeRecordFields(b, fs, j, recordOffset, record) ==
    IF j > Len(fs) THEN record
    ELSE DecodeRecordFields(b, fs, j + 1, recordOffset + fs[j].length,
            ObjSet(record, fs[j].name,
                   FieldValue(fs[j], FieldText(b, recordOffset, fs[j]))))

\* RecordOffset with the record index taken as 1-based
RecordOffsetOneBased(h, i) == h.bytesInHeader + ((i + 1) * h.bytesPerRecord)

\* where record i starts
RecordOffset(h, i) == h.bytesInHeader + (i * h.bytesPerRecord)

\* one iteration of decodeRecords' outer loop
DecodeRecord(b, fs, h, i) ==
    LET recordOffset == RecordOffset(h, i)
        record == << [key |-> KEY_isDel,
                      val |-> JsBoolean(At(b, recordOffset) = RECORD_DELETED)] >>
    IN  DecodeRecordFields(b, fs, 1, recordOffset + 1, record)

decodeRecords(b, fs, h) ==
    [i \in 1..h.totalRecords |-> DecodeRecord(b, fs, h, i - 1)]

----------------------------------------------------------------------------
(* Encoding *)

\* new Buffer(n): n bytes of whatever the allocator hands out
NewBuffer(n) == Repeat(junk, n)

\* field.type.charAt(0) throws a TypeError when FIELD_TYPES had no entry
\* for the type byte (field.type is undefined)
EncodeHeaderThrows(fs) == \E j \in 1..Len(fs) : fs[j].type = "undefined"

\* fields.reduce((memo, field) => memo + FIELD_SIZES[field.type.charAt(0)], 1)
\* stored by writeUInt16LE: a sum with an undefined size is NaN, stored as 0
HeaderRecordLength(fs) ==
    IF \E j \in 1..Len(fs) : FIELD_SIZES_letter(TypeInitial(fs[j].type)) = undefined
    THEN 0
    ELSE 1 + SumSeq([j \in 1..Len(fs) |-> FIELD_SIZES_letter(TypeInitial(fs[j].type))])

HeaderLength(fs) == 33 + (Len(fs) * 32)

\* dateNow is new Date(): [year |-> getYear(), month |-> getMonth(), date |-> getDate()]
encodeHeader(buffer, fs, rs, dateNow) ==
    WriteBytes(buffer, 0,
        << VERSION_DBASE5, dateNow.year, dateNow.month, dateNow.date >>
        \o UInt32LE(Len(rs))
        \o UInt16LE(HeaderLength(fs))
        \o UInt16LE(HeaderRecordLength(fs)))

EncodeFieldThrows(field) == ZeroFillThrows(field.name, NAME_WIDTH)

\* FIELD_SIZES[type] stored by writeUInt8: undefined is stored as 0
StoredFieldSize(type) ==
    IF FIELD_SIZES_letter(type) = undefined THEN 0 ELSE FIELD_SIZES_letter(type)

encodeField(field) ==
    LET type == TypeInitial(field.type)
        b0 == NewBuffer(32)
        b1 == WriteBytes(b0, 0, zeroFill(field.name, NAME_WIDTH, "right"))
        b2 == WriteBytes(b1, 11, <<type>>)
        b3 == WriteBytes(b2, 12, <<0, 0, 0, 0, field.length, StoredFieldSize(type),
                                   0, 0, 0, 0>>)
    IN  WriteAt(b3, 31, 0)

\* recordFields.filter((f) => !f.startsWith('_'))
RECURSIVE DataKeys(_)
DataKeys(keys) ==
    IF keys = <<>> THEN <<>>
    ELSE IF Head(keys) # <<>> /\ Head(Head(keys)) = 95 THEN DataKeys(Tail(keys))
    ELSE <<Head(keys)>> \o DataKeys(Tail(keys))

\* the bytes the switch writes for one record field
EncodeValue(v) ==
    LET size == FIELD_SIZES_typeof(TypeOf(v))
    IN  IF TypeOf(v) = "string"
        THEN zeroFill(v.seq, size, "right")
        ELSE LET zeroFilledNumber == zeroFill(NumberToString(v), size, "left")
             IN  [i \in 1..size |-> CharToUint8(zeroFilledNumber[i])]

EncodeValueThrows(v) ==
    IF TypeOf(v) = "string"
    THEN ZeroFillThrows(v.seq, FIELD_SIZES_typeof("string"))
    ELSE ZeroFillThrows(NumberToString(v), FIELD_SIZES_typeof("number"))

\* recordFields.reduce((memo, key) => memo + FIELD_SIZES[typeof record[key]], 0)
RecordBufferLength(record) ==
    SumSeq([i \in 1..Len(record) |-> FIELD_SIZES_typeof(TypeOf(record[i].val))])

EncodeRecordThrows(record) ==
    \E i \in 1..Len(record) :
        /\ ~(record[i].key # <<>> /\ Head(record[i].key) = 95)
        /\ EncodeValueThrows(record[i].val)

\* the body of the forEach over records.slice(0, 1): the flag at 0, then
\* the data fields one after the other; what is not written stays as allocated
EncodeRecord(record) ==
    LET keys == DataKeys(ObjectKeys(record))
        flag == IF Truthy(ObjGet(record, KEY_isDel)) THEN RECORD_DELETED
                ELSE RECORD_NOT_DELETED
        written == <<flag>> \o
                   Flatten([i \in 1..Len(keys) |-> EncodeValue(ObjGet(record, keys[i]))])
    IN  WriteBytes(NewBuffer(RecordBufferLength(record)), 0, written)

\* records.slice(0, 1)
RecordsToEncode(rs) == SubSeq(rs, 1, Min(1, Len(rs)))

\* Buffer.concat(list, totalLength): the buffers copied in order into
\* totalLength bytes of Buffer.allocUnsafe, cut at the end
BufferConcat(list, totalLength) ==
    LET all == Flatten(list)
    IN  SubSeq(all \o Repeat(junk, Max(totalLength - Len(all), 0)), 1, totalLength)

\* the totalLength the callback passes to Buffer.concat
FileLength(h, fbs, hb, rs) ==
    SumSeq([i \in 1..Len(fbs) |-> Len(fbs[i])]) + Len(hb) + h.bytesPerRecord * Len(rs)

\* where the callback writes FIELD_DELIMITER
DelimiterOffset(fs) == FIELD_OFFSET_SIZE * Len(fs)

\* where the callback writes EOF_FLAG
EofOffset(fb) == Len(fb)

----------------------------------------------------------------------------
(* The input: ./world.dbf.  A table file in the dBase layout: 32 header    *)
(* bytes, one 32-byte descriptor per field, the delimiter, the records     *)
(* (flag byte, then each field at its declared width), the end-of-file     *)
(* byte.                                                                   *)

Spaces(n) == Repeat(32, n)

\* the columns a world.dbf of the model may have: name, type letter, declared
\* length and the texts its cells hold
Columns ==
    { [name |-> <<78, 65, 77, 69>>, letter |-> 67, length |-> 5,         \* NAME C 5
       cells |-> << <<65, 108>> \o Spaces(3), <<66, 111, 98>> \o Spaces(2) >>],
      [name |-> <<78, 79, 84, 69>>, letter |-> 67, length |-> 254,       \* NOTE C 254
       cells |-> << <<72, 105>> \o Spaces(252), Spaces(254) >>],
      [name |-> <<65, 71, 69>>, letter |-> 78, length |-> 3,             \* AGE N 3
       cells |-> << <<48, 52, 50>>, <<49, 101, 57>> >>],               \* "042", "1e9"
      [name |-> <<66, 73, 71>>, letter |-> 78, length |-> 19,            \* BIG N 19
       cells |-> << Spaces(18) \o <<53>>, <<49>> \o Repeat(48, 18) >>],
      [name |-> <<79, 75>>, letter |-> 76, length |-> 1,                 \* OK L 1
       cells |-> << <<84>>, <<70>> >>],
      [name |-> <<68, 79, 66>>, letter |-> 68, length |-> 8,             \* DOB D 8
       cells |-> << <<50, 48, 49, 54, 48, 49, 48, 49>>, Spaces(8) >>] }

\* the cell of column c in record i (1-based): the column's texts in turn,
\* starting from the first (shift 0) or the second (shift 1)
CellOf(c, i, shift) == c.cells[((i - 1 + shift) % Len(c.cells)) + 1]

\* the field lists of the model's tables: one to MaxFields different columns
ColumnLists ==
    UNION { { cs \in [1..n -> Columns] : \A a, b \in 1..n : a # b => cs[a] # cs[b] }
            : n \in 1..MaxFields }

WorldDescriptor(c) ==
    c.name \o Repeat(0, NAME_WIDTH - Len(c.name)) \o <<c.letter>> \o <<0, 0, 0, 0>>
    \o <<c.length, 0>> \o Repeat(0, 14)

WorldRecord(cs, i, deleted, shift) ==
    << IF i \in deleted THEN RECORD_DELETED ELSE RECORD_NOT_DELETED >>
    \o Flatten([j \in 1..Len(cs) |-> CellOf(cs[j], i, shift)])

\* a well-formed file of n records over the columns cs, the records in
\* `deleted` flagged deleted, last updated on 2016-01-01
WorldFile(cs, n, deleted, shift) ==
    << 3, 116, 0, 1 >>
    \o UInt32LE(n)
    \o UInt16LE(32 + 32 * Len(cs) + 1)
    \o UInt16LE(1 + SumSeq([j \in 1..Len(cs) |-> cs[j].length]))
    \o Repeat(0, 20)
    \o Flatten([j \in 1..Len(cs) |-> WorldDescriptor(cs[j])])
    \o << FIELD_DELIMITER >>
    \o Flatten([i \in 1..n |-> WorldRecord(cs, i, deleted, shift)])
    \o << EOF_FLAG >>

\* a file as it reaches the script: whole, with its delimiter byte zeroed,
\* or cut off right before the delimiter
Damaged(file, nFields, damage) ==
    CASE damage = "none"        -> file
      [] damage = "noDelimiter" -> WriteAt(file, 32 + 32 * nFields, 0)
      [] damage = "truncated"   -> Slice(file, 0, 32 + 32 * nFields)

\* the whole files, and the damaged ones (of tables without records)
WorldFiles ==
    UNION { { WorldFile(cs, n, deleted, shift) :
                cs \in ColumnLists, deleted \in SUBSET (1..n), shift \in {0, 1} }
            : n \in 0..MaxRecords }
    \cup { Damaged(WorldFile(cs, 0, {}, 0), Len(cs), damage) :
              cs \in ColumnLists, damage \in {"noDelimiter", "truncated"} }

\* what new Date() may return: [getYear(), getMonth(), getDate()]
Clock == { [year |-> 116, month |-> 0, date |-> 1],
           [year |-> 116, month |-> 0, date |-> 2] }

\* bytes uninitialised memory may hold
JunkBytes == {0, 13}

NoHeader == [bytesInHeader |-> 0, bytesPerRecord |-> 0, totalRecords |-> 0]
NoTable == [header |-> NoHeader, fields |-> <<>>, records |-> <<>>]
NoDate == [year |-> 0, month |-> 0, date |-> 0]

----------------------------------------------------------------------------
(* The script *)

\* the runtimes the script may run on: an old one, where the memory of
\* new Buffer(n) and Buffer.concat is not zeroed and a write with noAssert
\* past the end is ignored; and a current one, zero-filling and throwing on
\* any write out of range
RuntimeOK ==
    \/ runtime = "lenient" /\ junk \in JunkBytes
    \/ runtime = "strict" /\ junk = 0

Init ==
    /\ pc = "readFile"
    /\ stage = 1
    /\ runtime \in {"lenient", "strict"}
    /\ junk \in JunkBytes
    /\ RuntimeOK
    /\ world \in WorldFiles
    /\ buff = <<>>
    /\ fieldOffset = 0
    /\ header = NoHeader
    /\ fields = <<>>
    /\ records = <<>>
    /\ table = NoTable
    /\ now = NoDate
    /\ headerBuffer = <<>>
    /\ fieldBuffers = <<>>
    /\ recordBuffers = <<>>
    /\ fileBuffer = <<>>
    /\ error = ""
    /\ run = 1
    /\ prevFile = <<>>

\* fs.readFile('./world.dbf', ...) calls back: decode(buff) starts with
\* decodeHeader and enters decodeFields
ReadFile ==
    /\ pc = "readFile"
    /\ pc' = "decodeFields"
    /\ buff' = world
    /\ header' = decodeHeader(world)
    /\ fields' = <<>>
    /\ fieldOffset' = FIELD_OFFSET_SIZE
    /\ UNCHANGED <<stage, runtime, junk, world, records, table, now, headerBuffer,
                   fieldBuffers, recordBuffers, fileBuffer, error, run, prevFile>>

\* one test of decodeFields' while loop, and its body when the test holds.
\* The model follows the loop MaxOverrun descriptors past the buffer's end.
DecodeFieldsStep ==
    /\ pc = "decodeFields"
    /\ fieldOffset < Len(buff) + FIELD_OFFSET_SIZE * MaxOverrun
    /\ IF FieldsLoopContinues(buff, fieldOffset)
       THEN /\ fields' = Append(fields, decodeField(buff, fieldOffset))
            /\ fieldOffset' = fieldOffset + FIELD_OFFSET_SIZE
            /\ pc' = pc
       ELSE /\ pc' = "decodeRecords"
            /\ UNCHANGED <<fields, fieldOffset>>
    /\ UNCHANGED <<stage, runtime, junk, world, buff, header, records, table, now,
                   headerBuffer, fieldBuffers, recordBuffers, fileBuffer, error, run,
                   prevFile>>

\* the rest of the readFile callback: decodeRecords, then "Encode back" up to
\* fs.writeFile, or up to the statement that throws
EncodeBack ==
    /\ pc = "decodeRecords"
    /\ stage = 1
    /\ \E dateNow \in Clock, rs \in {decodeRecords(buff, fields, header)} :
        LET hb  == encodeHeader(NewBuffer(32), fields, rs, dateNow)
            fbs == [j \in 1..Len(fields) |-> encodeField(fields[j])]
            enc == RecordsToEncode(rs)
            rbs == [i \in 1..Len(enc) |-> EncodeRecord(enc[i])]
            fb0 == BufferConcat(<<hb>> \o fbs \o rbs, FileLength(header, fbs, hb, rs))
            fb1 == WriteAt(fb0, DelimiterOffset(fields), FIELD_DELIMITER)
            headerThrows == EncodeHeaderThrows(fields)
            fieldThrows  == \E j \in 1..Len(fields) : EncodeFieldThrows(fields[j])
            recordThrows == \E i \in 1..Len(enc) : EncodeRecordThrows(enc[i])
            eofThrows    == runtime = "strict" /\ EofOffset(fb1) >= Len(fb1)
        IN  /\ records' = rs
            /\ table' = [header |-> header, fields |-> fields, records |-> rs]
            /\ now' = dateNow
            /\ headerBuffer' = IF headerThrows THEN <<>> ELSE hb
            /\ fieldBuffers' = IF headerThrows \/ fieldThrows THEN <<>> ELSE fbs
            /\ recordBuffers' =
                  IF headerThrows \/ fieldThrows \/ recordThrows THEN <<>> ELSE rbs
            /\ error' = CASE headerThrows -> "TypeError"
                          [] ~headerThrows /\ (fieldThrows \/ recordThrows \/ eofThrows)
                                        -> "RangeError"
                          [] OTHER      -> ""
            /\ fileBuffer' =
                  IF headerThrows \/ fieldThrows \/ recordThrows \/ eofThrows
                  THEN <<>> ELSE fb1
            /\ pc' = IF headerThrows \/ fieldThrows \/ recordThrows \/ eofThrows
                     THEN "threw" ELSE "written"
    /\ UNCHANGED <<stage, runtime, junk, world, buff, fieldOffset, header, fields,
                   run, prevFile>>

\* fs.writeFile has written ./new.dbf and fs.readFile hands it to
\* readBuffer, which starts with decodeHeader and enters decodeFields
ReadNewFile ==
    /\ pc = "written"
    /\ pc' = "decodeFields"
    /\ stage' = 2
    /\ buff' = fileBuffer
    /\ header' = decodeHeader(fileBuffer)
    /\ fields' = <<>>
    /\ fieldOffset' = FIELD_OFFSET_SIZE
    /\ records' = <<>>
    /\ UNCHANGED <<runtime, junk, world, table, now, headerBuffer, fieldBuffers,
                   recordBuffers, fileBuffer, error, run, prevFile>>

\* the rest of readBuffer: decodeRecords and console.log(records[0])
ReadBufferFinish ==
    /\ pc = "decodeRecords"
    /\ stage = 2
    /\ records' = decodeRecords(buff, fields, header)
    /\ pc' = "done"
    /\ UNCHANGED <<stage, runtime, junk, world, buff, fieldOffset, header, fields,
                   table, now, headerBuffer, fieldBuffers, recordBuffers, fileBuffer,
                   error, run, prevFile>>

Next ==
    \/ ReadFile
    \/ DecodeFieldsStep
    \/ EncodeBack
    \/ ReadNewFile
    \/ ReadBufferFinish

Spec == Init /\ [][Next]_vars

\* the script is started again on the same ./world.dbf, on the same runtime;
\* ./new.dbf is what the last run that got to fs.writeFile left there
RunAgain ==
    /\ pc \in {"done", "threw"}
    /\ run < MaxRuns
    /\ run' = run + 1
    /\ prevFile' = IF pc = "done" THEN fileBuffer ELSE prevFile
    /\ pc' = "readFile"
    /\ stage' = 1
    /\ buff' = <<>>
    /\ fieldOffset' = 0
    /\ header' = NoHeader
    /\ fields' = <<>>
    /\ records' = <<>>
    /\ table' = NoTable
    /\ now' = NoDate
    /\ headerBuffer' = <<>>
    /\ fieldBuffers' = <<>>
    /\ recordBuffers' = <<>>
    /\ fileBuffer' = <<>>
    /\ error' = ""
    /\ UNCHANGED <<runtime, junk, world>>

NextTwice ==
    \/ Next
    \/ RunAgain

\* two runs of the script, one after the other
SpecTwice == Init /\ [][NextTwice]_vars

----------------------------------------------------------------------------
(* Vocabulary of the properties *)

\* the callback got as far as encoding: table holds decode(world)
Encoded == table # NoTable

\* the callback got to fs.writeFile
Written == fileBuffer # <<>>

\* records holds decodeRecords(buff, fields, header)
RecordsDecoded == pc \in {"written", "threw", "done"}

\* the type letter of the file format for a decoded type name
TypeLetter(type) ==
    CASE type = "Character" -> 67
      [] type = "Boolean"   -> 76
      [] type = "Date"      -> 68
      [] type = "Numeric"   -> 78

\* the storage size of a field's type
StorageSize(field) == FIELD_SIZES_letter(TypeLetter(field.type))

\* the sum of the declared lengths of fields 1..j of fs
DeclaredSum(fs, j) == SumSeq([k \in 1..j |-> fs[k].length])

\* the header values written by the encoder
WrittenRecordCount == ReadUInt32LE(headerBuffer, 4)
WrittenHeaderLength == ReadUInt16LE(headerBuffer, 8)
WrittenRecordLength == ReadUInt16LE(headerBuffer, 10)

IsDeleted(record) == ObjGet(record, KEY_isDel).bool

----------------------------------------------------------------------------
(* Properties *)

\* C1: round trip.  Once readBuffer has decoded ./new.dbf, the encoding of
\* the table decoded from ./world.dbf, it holds the same field list (names,
\* types, declared lengths, in order) and the same record list (values and
\* deletion flags, in order) as that table.
C1_RoundTrip ==
    pc = "done" => fields = table.fields /\ records = table.records

\* C2: header derivation.  The header written by the encoder carries the
\* number of records, 32 + 32 * (number of fields) + 1 as header length and
\* 1 + the sum of the fields' storage sizes as record length.
C2_HeaderDerivation ==
    (Encoded /\ headerBuffer # <<>>) =>
        /\ WrittenRecordCount = Len(table.records)
        /\ WrittenHeaderLength = 32 + 32 * Len(table.fields) + 1
        /\ WrittenRecordLength =
              1 + SumSeq([j \in 1..Len(table.fields) |-> StorageSize(table.fields[j])])

\* C3: descriptor delimiter.  In the encoded bytes of a table with N fields
\* the delimiter 0x0D sits at offset 32 + 32 * N, the header and every
\* descriptor are intact, and decoding the descriptors of those bytes yields
\* N descriptors.
C3_Delimiter ==
    /\ Written =>
        /\ At(fileBuffer, 32 + 32 * Len(table.fields)) = FIELD_DELIMITER
        /\ Slice(fileBuffer, 0, 32) = headerBuffer
        /\ \A j \in 1..Len(table.fields) :
              Slice(fileBuffer, 32 * j, 32 * j + 32) = fieldBuffers[j]
    /\ (stage = 2 /\ pc \in {"decodeRecords", "done"}) => Len(fields) = Len(table.fields)

\* C4: fixed width.  Every record is encoded, each encoded record is as long
\* as the record length written in the header, each field in it takes its
\* declared width, and the record area of the file is the encoded records,
\* one after the other from the header length on.
C4_FixedWidth ==
    Written =>
        /\ Len(recordBuffers) = Len(table.records)
        /\ \A i \in 1..Len(recordBuffers) :
              /\ Len(recordBuffers[i]) = WrittenRecordLength
              /\ \A j \in 1..Len(table.fields) :
                    Len(EncodeValue(ObjGet(table.records[i], table.fields[j].name)))
                        = table.fields[j].length
              /\ Slice(fileBuffer,
                       WrittenHeaderLength + (i - 1) * WrittenRecordLength,
                       WrittenHeaderLength + i * WrittenRecordLength) = recordBuffers[i]

\* C5: deletion flag.  A record whose first byte is 0x2A decodes as deleted,
\* one whose first byte is 0x20 as active; in the encoded file the first byte
\* of every record's window is 0x2A for a deleted record and 0x20 for an
\* active one.
C5_DeletionFlag ==
    /\ Encoded =>
        \A i \in 1..Len(table.records) :
            IsDeleted(table.records[i])
                = (At(world, RecordOffset(table.header, i - 1)) = RECORD_DELETED)
    /\ Written =>
        \A i \in 1..Len(table.records) :
            At(fileBuffer, WrittenHeaderLength + (i - 1) * WrittenRecordLength)
                = IF IsDeleted(table.records[i]) THEN RECORD_DELETED ELSE RECORD_NOT_DELETED

\* C6: truncated descriptor array.  Decoding the descriptors of a buffer
\* without a delimiter stops at the buffer's end: the loop never goes on from
\* an offset that is not inside the buffer.
C6_Truncated ==
    pc = "decodeFields" => fieldOffset - FIELD_OFFSET_SIZE < Len(buff)

\* C7: empty table.  A table of N >= 1 fields and no records encodes without
\* error to 32 + 32 * N + 2 bytes, the delimiter at 32 + 32 * N and the
\* end-of-file byte 0x1A after it, and decodes back to N fields, no records.
C7_EmptyTable ==
    (Encoded /\ Len(table.fields) >= 1 /\ table.records = <<>>) =>
        /\ error = ""
        /\ Len(fileBuffer) = 32 + 32 * Len(table.fields) + 2
        /\ At(fileBuffer, 32 + 32 * Len(table.fields)) = FIELD_DELIMITER
        /\ At(fileBuffer, 32 + 32 * Len(table.fields) + 1) = EOF_FLAG
        /\ pc = "done" => (Len(fields) = Len(table.fields) /\ records = <<>>)

\* a numeric value whose text (sign included) is longer than the width of
\* its field
Overflows(field, v) ==
    TypeOf(v) = "number" /\ Len(NumberToString(v)) > field.length

\* C8: numeric overflow.  Encoding a table one of whose records holds, in a
\* numeric field, a value that does not fit the field's width fails, and no
\* file buffer is produced.
C8_NumericOverflow ==
    (Encoded /\ \E i \in 1..Len(table.records) : \E j \in 1..Len(table.fields) :
                   /\ table.fields[j].type = "Numeric"
                   /\ Overflows(table.fields[j],
                                ObjGet(table.records[i], table.fields[j].name)))
        => (error # "" /\ fileBuffer = <<>>)

\* C9: determinism.  Two encodings of the same table are the same bytes,
\* whatever the wall clock says at the time of each.
C9_Deterministic ==
    (run = 2 /\ Written /\ prevFile # <<>>) => fileBuffer = prevFile

\* the window of record i (1-based) and of its field j, as the file layout
\* defines them from the header and the declared lengths
WindowStart(i) == header.bytesInHeader + (i - 1) * header.bytesPerRecord
FieldFrom(i, j) == WindowStart(i) + 1 + DeclaredSum(fields, j - 1)
FieldTo(i, j) == FieldFrom(i, j) + fields[j].length

\* C10: record windows in decode.  decodeRecords returns header.totalRecords
\* records in file order; record i is read from the window that starts at
\* bytesInHeader + i * bytesPerRecord, its first byte is the deletion flag,
\* and field j is read from the bytes that start at the window's start + 1 +
\* the declared lengths of the fields before it and span its declared length.
\* When bytesPerRecord is 1 + the sum of the declared lengths, the windows of
\* two different fields never overlap and each lies inside its record's window.
C10_RecordWindows ==
    RecordsDecoded =>
        /\ Len(records) = header.totalRecords
        /\ \A i \in 1..Len(records) :
              /\ IsDeleted(records[i]) = (At(buff, WindowStart(i)) = RECORD_DELETED)
              /\ \A j \in 1..Len(fields) :
                    ObjGet(records[i], fields[j].name) =
                        FieldValue(fields[j],
                            Trim(StripZeroFill(AsciiDecode(
                                Slice(buff, FieldFrom(i, j), FieldTo(i, j))))))
        /\ header.bytesPerRecord = 1 + DeclaredSum(fields, Len(fields)) =>
              \A i \in 1..Len(records) : \A j \in 1..Len(fields) :
                  /\ WindowStart(i) < FieldFrom(i, j)
                  /\ FieldTo(i, j) <= WindowStart(i) + header.bytesPerRecord
                  /\ \A i2 \in 1..Len(records) : \A j2 \in 1..Len(fields) :
                        (i # i2 \/ j # j2) =>
                            (FieldTo(i, j) <= FieldFrom(i2, j2)
                             \/ FieldTo(i2, j2) <= FieldFrom(i, j))

\* two records, the second deleted, of two fields, decoded from a file whose
\* record length is 1 + the sum of the declared lengths
C10_Witness ==
    /\ RecordsDecoded
    /\ Len(records) = 2
    /\ Len(fields) = 2
    /\ header.bytesPerRecord = 1 + DeclaredSum(fields, Len(fields))
    /\ IsDeleted(records[2])
    /\ ~IsDeleted(records[1])

====
